---- MODULE Spec2Model ----
(***************************************************************************)
(* Verification model of the SPDY engine's flow control (flow.go), stream  *)
(* limiter and stream state machine.                                        *)
(*                                                                         *)
(* Machine words: Go's uint32 is modelled as an unsigned word of WordBits  *)
(* bits (arithmetic % Word), because the model checker's integers are      *)
(* 32-bit.  The constants that the source defines relative to the uint32   *)
(* range keep their relation to it: MAX_TRANSFER_WINDOW_SIZE and           *)
(* NO_STREAM_LIMIT are 0x80000000 = half the word range, and               *)
(* MAX_DELTA_WINDOW_SIZE is 0x7fffffff = half the word range minus one.    *)
(* Go's int64 is modelled as an unbounded integer: no reachable value      *)
(* comes near its range.                                                   *)
(*                                                                         *)
(* Payload bytes are modelled by their position in the stream of accepted  *)
(* writes (the k-th accepted byte is the number k), so that loss,          *)
(* duplication and reordering are visible in the emitted frames.           *)
(***************************************************************************)
EXTENDS Integers, Sequences, FiniteSets, TLC


\* ---------------------------------------------------------------- bounds
\* width of the modelled uint32
WordBits == 3
\* most payload bytes accepted by Write over a run
MaxBytes == 3
\* longest data passed to one Write call
MaxWriteLen == 2
\* most frames put on the output channel over a run
MaxFrames == 2
\* most calls of Receive over a run
MaxReceives == 3
\* tasks calling the streamLimit methods concurrently
NumProcs == 2
\* tasks calling the StreamState methods concurrently
NumTasks == 2

Word == 2 ^ WordBits
UInt == 0 .. (Word - 1)
Procs == 1 .. NumProcs
Tasks == 1 .. NumTasks

\* ------------------------------------------------------ program constants
MAX_TRANSFER_WINDOW_SIZE == 2 ^ (WordBits - 1)
MAX_DELTA_WINDOW_SIZE == 2 ^ (WordBits - 1) - 1
NO_STREAM_LIMIT == 2 ^ (WordBits - 1)
MAX_STREAM_ID == 2 ^ (WordBits - 1) - 1
\* the largest payload of a frame (a 24-bit length): fewer bits than the
\* largest window
MAX_DATA_SIZE == 2 ^ (WordBits - 1) - 1
STATE_OPEN == 0
STATE_HALF_CLOSED_HERE == 1
STATE_HALF_CLOSED_THERE == 2
STATE_CLOSED == 3

\* stream ids of one direction: the ids of one parity up to MAX_STREAM_ID
MaxStreams == (MAX_STREAM_ID + 1) \div 2

\* values given to SetLimit
Limits == {0, 1, NO_STREAM_LIMIT}

\* values of the delta of a WINDOW_UPDATE (a uint32): small ones, the ones
\* around the largest window and the largest word
Deltas == {0, 1, 2, MAX_DELTA_WINDOW_SIZE, MAX_TRANSFER_WINDOW_SIZE, Word - 1}

\* values of the policy's InitialWindowSize() (a uint32)
InitialWindowsThere == {0, 1, MAX_TRANSFER_WINDOW_SIZE, Word - 1}

\* the stream kinds that have an AddFlowControl
Kinds == {"server", "push", "client"}

\* flow-control policies: the default one, one that never regrows the
\* window and one that grants one byte on every call
Policies == {"default", "never", "one"}

\* payload lengths of inbound DATA frames
Payloads == 0 .. MAX_DATA_SIZE

\* the id of the stream that holds the flow control
streamID == 1

\* status codes given to StatusCodeIsFatal (an int): the defined ones and
\* undefined ones around them
StatusCodes == (0 - 1) .. 12

\* versions given to EnableSpdyVersion and DisableSpdyVersion (a uint16)
VersionArgs == 0 .. 5

\* versions given to NewServerConn (a float64), in tenths
ConnVersions == {0, 10, 20, 21, 30, 31, 32, 40}

\* dynamic types of an http.ResponseWriter: the standard library's, a nil
\* interface, and the stream types of the package
Writers == {"http.response", "nil", "serverStreamV2", "serverStreamV3",
            "pushStreamV3", "clientStreamV3"}

\* stream priorities (0 highest, 7 lowest); also the values given to the
\* subversion field of a connV3
Priorities == {0, 1, 2, 7}

\* values of the connection's initial window (SETTINGS_INITIAL_WINDOW_SIZE)
InitialWindows == {0, 1, MAX_TRANSFER_WINDOW_SIZE}

\* ------------------------------------------------------------------ state
VARIABLES
    \* flowControl fields
    initialWindow, transferWindow, sent, buffer, bufferNil, constrained,
    stream, output,
    \* the connection's current InitialWindowSize()
    connWindow,
    \* history: bytes accepted by Write; whether the connection's initial
    \* window was ever changed; the window credit granted (initial window
    \* plus accepted deltas) while it was not; the last call and whether it
    \* returned an error
    written, renegotiated, credit, last

flowVars == <<initialWindow, transferWindow, sent, buffer, bufferNil,
              constrained, stream, output, connWindow, written, renegotiated,
              credit, last>>

VARIABLES
    \* streamLimit fields; mutex is the task holding the sync.Mutex (0: free)
    limit, current, mutex,
    \* per task: position in a streamLimit method, argument of its SetLimit
    lpc, larg,
    \* history: result of the last Add that returned; streams admitted and
    \* not yet handed to Close
    lastAdd, holding

limitVars == <<limit, current, mutex, lpc, larg, lastAdd, holding>>

VARIABLES
    \* StreamState.s; smutex is the task holding the write lock (0: free)
    s, smutex,
    \* per task: the StreamState method it is in and its position there
    spc,
    \* history: the last completed method with the states before and after
    slast

stateVars == <<s, smutex, spc, slast>>

VARIABLES
    \* the stream kind whose AddFlowControl made the object, and the policy
    \* (flowControl.flowControl) it was given
    kind, policy,
    \* flowControl fields of the receiving direction
    initialWindowThere, transferWindowThere,
    \* history: calls of Receive so far; the last call: payload length,
    \* window before it, arguments and answer of the policy, frames emitted
    received, rlast

recvVars == <<kind, policy, initialWindowThere, transferWindowThere,
              received, rlast>>

VARIABLES
    \* whether the stream's flow field holds a flowControl object
    attached

streamVars == <<attached>>

VARIABLES
    \* the package's map of supported versions (its key set)
    supportedVersions,
    \* history: the last call of a package-level function: its name, its
    \* integer argument (status code, version), its writer argument, the
    \* integer and boolean results, the error and the connection method
    \* the call was passed on to
    alast,
    \* the connection returned by the last NewServerConn
    made

apiVars == <<supportedVersions, alast, made>>

\* a Write and an UpdateWindow running at the same time on one stream:
\* wpc, upc: the position of the handler in Write and of the reader in
\* UpdateWindow; wl: Write's argument and locals [arg, data, window]; ul:
\* UpdateWindow's
\* argument; fmutex: the flowControl's mutex, 0 when free; before: the
\* flowControl object when the two calls were made
VARIABLES wpc, wl, upc, ul, fmutex, before

raceVars == <<wpc, wl, upc, ul, fmutex, before>>

vars == <<flowVars, limitVars, stateVars, recvVars, streamVars, apiVars,
          raceVars>>

\* ------------------------------------------------------------ helpers
RECURSIVE Concat(_)
\* concatenation of a sequence of byte sequences
Concat(ss) == IF ss = <<>> THEN <<>> ELSE Head(ss) \o Concat(Tail(ss))

\* the bytes first..last
Bytes(first, lastb) == [i \in 1 .. (lastb - first + 1) |-> first + i - 1]

\* a DATA frame of the stream
DataFrame(data) == [type |-> "DATA", data |-> data]

\* the flowControl object as a record
F == [initialWindow |-> initialWindow, transferWindow |-> transferWindow,
      sent |-> sent, buffer |-> buffer, bufferNil |-> bufferNil,
      constrained |-> constrained, stream |-> stream, output |-> output]

\* assignment of the flowControl object
SetF(r) ==
    /\ initialWindow' = r.initialWindow
    /\ transferWindow' = r.transferWindow
    /\ sent' = r.sent
    /\ buffer' = r.buffer
    /\ bufferNil' = r.bufferNil
    /\ constrained' = r.constrained
    /\ stream' = r.stream
    /\ output' = r.output

\* ------------------------------------------------------- flowControl code
\* conn is the answer of f.stream.Conn().InitialWindowSize():
\* [ok |-> no error, window |-> the size]
CheckInitialWindow(r, conn) ==
    IF ~r.stream \/ ~conn.ok THEN r
    ELSE IF r.initialWindow # conn.window
    THEN LET tw == IF r.initialWindow > conn.window
                   THEN (conn.window - r.sent) % Word
                   ELSE r.transferWindow + ((conn.window - r.initialWindow) % Word)
         IN [r EXCEPT !.transferWindow = tw,
                      !.constrained = IF tw <= 0 THEN TRUE ELSE @,
                      !.initialWindow = conn.window]
    ELSE r

RECURSIVE FlushLoop(_, _, _, _)
\* the for loop of Flush: i is the (0-based) index, buf the buffer,
\* out the bytes collected, left the window left
FlushLoop(i, buf, out, left) ==
    IF i >= Len(buf) THEN [buffer |-> buf, out |-> out]
    ELSE LET chunk == buf[i + 1]
             l == Len(chunk)
         IN IF l <= left
            THEN IF left - l = 0
                 THEN [buffer |-> Tail(buf), out |-> out \o chunk]
                 ELSE FlushLoop(i + 1, Tail(buf), out \o chunk, left - l)
            ELSE [buffer |-> [buf EXCEPT ![i + 1] = SubSeq(chunk, left + 1, l)],
                  out |-> out \o SubSeq(chunk, 1, left)]

\* Flush without the test of the constrained flag
FlushUnconstrained(r, conn) ==
    LET c == CheckInitialWindow(r, conn)
    IN IF c.transferWindow = 0 THEN c
       ELSE LET res == FlushLoop(0, c.buffer, <<>>, c.transferWindow)
                tw == c.transferWindow - Len(res.out)
            IN [c EXCEPT !.buffer = res.buffer,
                         !.transferWindow = tw,
                         !.constrained = IF tw > 0 THEN FALSE ELSE @,
                         !.output = Append(@, DataFrame(res.out))]

Flush(r, conn) ==
    LET c == CheckInitialWindow(r, conn)
    IN IF ~c.constrained \/ c.transferWindow = 0 THEN c
       ELSE LET res == FlushLoop(0, c.buffer, <<>>, c.transferWindow)
                tw == c.transferWindow - Len(res.out)
            IN [c EXCEPT !.buffer = res.buffer,
                         !.transferWindow = tw,
                         !.constrained = IF tw > 0 THEN FALSE ELSE @,
                         !.output = Append(@, DataFrame(res.out))]

Paused(r, conn) ==
    LET c == CheckInitialWindow(r, conn)
    IN [f |-> c, ret |-> c.constrained]

Close(r) == [r EXCEPT !.buffer = <<>>, !.bufferNil = TRUE, !.stream = FALSE]

\* UpdateWindow refusing a sum equal to the largest window
UpdateWindowStrict(r, delta, conn) ==
    IF delta + r.transferWindow >= MAX_TRANSFER_WINDOW_SIZE
    THEN [f |-> r, err |-> TRUE]
    ELSE LET g == [r EXCEPT !.transferWindow = @ + delta]
         IN [f |-> Flush(g, conn), err |-> FALSE]

\* result: [f |-> the object, err |-> error returned]
UpdateWindow(r, delta, conn) ==
    IF delta + r.transferWindow > MAX_TRANSFER_WINDOW_SIZE
    THEN [f |-> r, err |-> TRUE]
    ELSE LET g == [r EXCEPT !.transferWindow = @ + delta]
         IN [f |-> Flush(g, conn), err |-> FALSE]

\* WriteClosed without the test
WriteClosedNever(r) == FALSE

\* Write's test for a closed flow control
WriteClosed(r) == r.bufferNil \/ ~r.stream

\* result: [f |-> the object, n |-> bytes reported written, err |-> error]
Write(r, data, conn) ==
    LET l == Len(data)
    IN IF l = 0 THEN [f |-> r, n |-> 0, err |-> FALSE]
       ELSE IF WriteClosed(r) THEN [f |-> r, n |-> 0, err |-> TRUE]
       ELSE
         LET c == CheckInitialWindow(r, conn)
             d == IF c.constrained THEN Flush(c, conn) ELSE c
             window == IF d.transferWindow < 0 THEN 0
                       ELSE d.transferWindow % Word
             e == IF l > window
                  THEN [d EXCEPT !.buffer = Append(@, SubSeq(data, window + 1, l)),
                                 !.bufferNil = FALSE,
                                 !.sent = (@ + window) % Word,
                                 !.transferWindow = @ - window,
                                 !.constrained = TRUE]
                  ELSE d
             rest == IF l > window THEN SubSeq(data, 1, window) ELSE data
         IN IF Len(rest) = 0 THEN [f |-> e, n |-> l, err |-> FALSE]
            ELSE [f |-> [e EXCEPT !.output = Append(@, DataFrame(rest))],
                  n |-> l, err |-> FALSE]

\* ------------------------------------------------------------------ Init
\* a limiter and a stream state at rest
LimitIdle ==
    /\ current = 0
    /\ mutex = 0
    /\ lpc = [p \in Procs |-> "idle"]
    /\ larg = [p \in Procs |-> 0]
    /\ lastAdd = "none"
    /\ holding = 0

\* the receiving direction as AddFlowControl(f) of a stream of kind k
\* leaves it, f being policy pol with InitialWindowSize() = w
RecvAdded(k, pol, w) ==
    /\ attached = TRUE
    /\ kind = k
    /\ policy = pol
    /\ initialWindowThere = w
    /\ transferWindowThere = IF k = "push" THEN 0 ELSE initialWindowThere
    /\ received = 0
    /\ rlast = [n |-> 0, before |-> 0, asked |-> <<>>, delta |-> 0,
                frames |-> <<>>]

RecvIdle == RecvAdded("server", "default", 0)

\* no connection
NilConn == [type |-> "nil", subversion |-> 0, nextPingID |-> 0,
            pushStreamLimit |-> 0, outputs |-> 0]

\* the package after initialisation, no function called yet
ApiIdle ==
    /\ supportedVersions = {2, 3}
    /\ alast = [op |-> "none", v |-> 0, w |-> "nil", ret |-> 0,
                ok |-> FALSE, err |-> "nil", conn |-> "none"]
    /\ made = NilConn

\* no Write and no UpdateWindow under way
RaceIdle ==
    /\ wpc = "idle"
    /\ wl = [arg |-> <<>>, data |-> <<>>, window |-> 0]
    /\ upc = "idle"
    /\ ul = 0
    /\ fmutex = 0
    /\ before = [initialWindow |-> 0, transferWindow |-> 0, sent |-> 0,
                 buffer |-> <<>>, bufferNil |-> FALSE, constrained |-> FALSE,
                 stream |-> TRUE, output |-> <<>>]

StateIdle ==
    /\ s = STATE_OPEN
    /\ smutex = 0
    /\ spc = [t \in Tasks |-> <<"none", "idle">>]
    /\ slast = [op |-> "none", from |-> STATE_OPEN, to |-> STATE_OPEN]

\* the flow control as the AddFlowControl of a stream leaves it
FlowIdle(w) ==
    /\ connWindow = w
    /\ initialWindow = connWindow
    /\ transferWindow = connWindow
    /\ sent = 0
    /\ buffer = <<>>
    /\ bufferNil = FALSE
    /\ constrained = FALSE
    /\ stream = TRUE
    /\ output = <<>>
    /\ written = 0
    /\ renegotiated = FALSE
    /\ credit = connWindow
    /\ last = [op |-> "none", err |-> FALSE]

Init ==
    /\ \E w \in InitialWindows : FlowIdle(w)
    /\ limit = NO_STREAM_LIMIT /\ LimitIdle
    /\ StateIdle
    /\ ApiIdle
    /\ RaceIdle
    /\ RecvIdle

\* answers of the connection's InitialWindowSize()
Conns == {[ok |-> b, window |-> connWindow] : b \in BOOLEAN}

\* the data of the next Write of n bytes
NextData(n) == Bytes(written + 1, written + n)

\* ----------------------------------------------------------------- actions
\* a handler writes n bytes
DoWrite(n, conn) ==
    /\ written + n <= MaxBytes
    /\ LET res == Write(F, NextData(n), conn)
       IN /\ Len(res.f.output) <= MaxFrames
          /\ SetF(res.f)
          /\ written' = IF res.err THEN written ELSE written + res.n
          /\ last' = [op |-> "Write", err |-> res.err]
    /\ UNCHANGED <<connWindow, credit, renegotiated, limitVars, stateVars, recvVars, streamVars, apiVars, raceVars>>

\* the reader receives WINDOW_UPDATE(delta)
DoUpdateWindow(delta, conn) ==
    /\ LET res == UpdateWindow(F, delta, conn)
       IN /\ Len(res.f.output) <= MaxFrames
          /\ SetF(res.f)
          /\ credit' = IF res.err \/ renegotiated THEN credit
                       ELSE credit + delta
          /\ last' = [op |-> "UpdateWindow", err |-> res.err]
    /\ UNCHANGED <<connWindow, written, renegotiated, limitVars, stateVars, recvVars, streamVars, apiVars, raceVars>>

DoFlush(conn) ==
    /\ LET res == Flush(F, conn)
       IN /\ Len(res.output) <= MaxFrames
          /\ SetF(res)
    /\ last' = [op |-> "Flush", err |-> FALSE]
    /\ UNCHANGED <<connWindow, written, credit, renegotiated, limitVars,
                   stateVars, recvVars, streamVars, apiVars, raceVars>>

DoPaused(conn) ==
    /\ SetF(Paused(F, conn).f)
    /\ last' = [op |-> "Paused", err |-> FALSE]
    /\ UNCHANGED <<connWindow, written, credit, renegotiated, limitVars,
                   stateVars, recvVars, streamVars, apiVars, raceVars>>

DoClose ==
    /\ SetF(Close(F))
    /\ last' = [op |-> "Close", err |-> FALSE]
    /\ UNCHANGED <<connWindow, written, credit, renegotiated, limitVars,
                   stateVars, recvVars, streamVars, apiVars, raceVars>>

\* the peer's SETTINGS change the connection's initial window
SetInitialWindow(w) ==
    /\ w # connWindow
    /\ connWindow' = w
    /\ renegotiated' = TRUE
    /\ credit' = 0
    /\ last' = [op |-> "Settings", err |-> FALSE]
    /\ UNCHANGED <<initialWindow, transferWindow, sent, buffer, bufferNil,
                   constrained, stream, output, written, limitVars,
                   stateVars, recvVars, streamVars, apiVars, raceVars>>

Next ==
    \/ \E n \in 0 .. MaxWriteLen, conn \in Conns : DoWrite(n, conn)
    \/ \E delta \in Deltas, conn \in Conns : DoUpdateWindow(delta, conn)
    \/ \E conn \in Conns : DoFlush(conn)
    \/ \E conn \in Conns : DoPaused(conn)
    \/ DoClose
    \/ \E w \in InitialWindows : SetInitialWindow(w)

Spec == Init /\ [][Next]_vars

\* ------------------------------------------------------- eventual delivery
\* the sender with a handler that writes its MaxBytes bytes and then stops,
\* and a peer that keeps sending WINDOW_UPDATE frames; the output channel is
\* drained by the connection, so no step waits for room on it
LiveWrite(n, conn) ==
    /\ written + n <= MaxBytes
    /\ LET res == Write(F, NextData(n), conn)
       IN /\ SetF(res.f)
          /\ written' = IF res.err THEN written ELSE written + res.n
          /\ last' = [op |-> "Write", err |-> res.err]
    /\ UNCHANGED <<connWindow, credit, renegotiated, limitVars, stateVars,
                   recvVars, streamVars, apiVars, raceVars>>

\* the peer grants delta, positive and within what the window can take
LiveGrant(delta, conn) ==
    /\ delta > 0
    /\ delta + transferWindow <= MAX_TRANSFER_WINDOW_SIZE
    /\ LET res == UpdateWindow(F, delta, conn)
       IN /\ SetF(res.f)
          /\ credit' = IF res.err THEN credit ELSE credit + delta
          /\ last' = [op |-> "UpdateWindow", err |-> res.err]
    /\ UNCHANGED <<connWindow, written, renegotiated, limitVars, stateVars,
                   recvVars, streamVars, apiVars, raceVars>>

LiveGrants == \E delta \in Deltas, conn \in Conns : LiveGrant(delta, conn)

LiveNext ==
    \/ \E n \in 0 .. MaxWriteLen, conn \in Conns : LiveWrite(n, conn)
    \/ LiveGrants

\* the reader calls UpdateWindow for every WINDOW_UPDATE the peer sends, so
\* a grant that stays possible is eventually made
LiveSpec == Init /\ [][LiveNext]_vars /\ WF_vars(LiveGrants)

\* ------------------------------------------------------------ streamLimit
\* a task calls a method of the limiter
LimitCall(p, op) ==
    /\ lpc[p] = "idle"
    /\ lpc' = [lpc EXCEPT ![p] = op]

\* Lock that does not wait
LockNoWait(p) == mutex' = p

\* s.Lock(): waits until the mutex is free
Lock(p) == mutex = 0 /\ mutex' = p

\* tasks inside Add
InAdd == {p \in Procs : lpc[p] \in {"Add_wait", "Add", "Add_inc"}}

\* Add is called: a stream is to be opened and a stream id is left for it
AddCall(p) ==
    /\ holding + Cardinality(InAdd) < MaxStreams
    /\ LimitCall(p, "Add_wait")
    /\ UNCHANGED <<limit, current, mutex, larg, lastAdd, holding, flowVars,
                   stateVars, recvVars, streamVars, apiVars, raceVars>>

\* Add, line 165
AddLock(p) ==
    /\ lpc[p] = "Add_wait"
    /\ Lock(p)
    /\ lpc' = [lpc EXCEPT ![p] = "Add"]
    /\ UNCHANGED <<limit, current, larg, lastAdd, holding, flowVars, stateVars, recvVars, streamVars, apiVars, raceVars>>

\* Add, line 167: the test that refuses a stream
AddRefuses(cur, lim) == cur >= lim

\* Close, line 178: s.current-- on a uint32
CloseDecrement(cur) == (cur - 1) % Word

\* AddCheck admitting a stream when current = limit
AddCheckOffByOne(p) ==
    /\ lpc[p] = "Add"
    /\ IF current > limit
       THEN /\ lastAdd' = "false"
            /\ lpc' = [lpc EXCEPT ![p] = "idle"]
            /\ mutex' = 0
       ELSE /\ lpc' = [lpc EXCEPT ![p] = "Add_inc"]
            /\ UNCHANGED <<lastAdd, mutex>>
    /\ UNCHANGED <<limit, current, larg, holding, flowVars, stateVars, recvVars, streamVars, apiVars, raceVars>>

\* Add, lines 167-169: the test, and the refusal with the deferred Unlock
AddCheck(p) ==
    /\ lpc[p] = "Add"
    /\ IF AddRefuses(current, limit)
       THEN /\ lastAdd' = "false"
            /\ lpc' = [lpc EXCEPT ![p] = "idle"]
            /\ mutex' = 0
       ELSE /\ lpc' = [lpc EXCEPT ![p] = "Add_inc"]
            /\ UNCHANGED <<lastAdd, mutex>>
    /\ UNCHANGED <<limit, current, larg, holding, flowVars, stateVars, recvVars, streamVars, apiVars, raceVars>>

\* Add, lines 170-171: the increment, the result and the deferred Unlock
AddInc(p) ==
    /\ lpc[p] = "Add_inc"
    /\ current' = (current + 1) % Word
    /\ lastAdd' = "true"
    /\ lpc' = [lpc EXCEPT ![p] = "idle"]
    /\ mutex' = 0
    /\ holding' = holding + 1
    /\ UNCHANGED <<limit, larg, flowVars, stateVars, recvVars, streamVars, apiVars, raceVars>>

\* SetLimit(l) is called
SetLimitCall(p, l) ==
    /\ LimitCall(p, "SetLimit_wait")
    /\ larg' = [larg EXCEPT ![p] = l]
    /\ UNCHANGED <<limit, current, mutex, lastAdd, holding, flowVars,
                   stateVars, recvVars, streamVars, apiVars, raceVars>>

\* SetLimit, line 151
SetLimitLock(p) ==
    /\ lpc[p] = "SetLimit_wait"
    /\ Lock(p)
    /\ lpc' = [lpc EXCEPT ![p] = "SetLimit"]
    /\ UNCHANGED <<limit, current, larg, lastAdd, holding, flowVars, stateVars, recvVars, streamVars, apiVars, raceVars>>

\* SetLimitSet cutting the count of active streams down to the new limit
SetLimitSetTeardown(p) ==
    /\ lpc[p] = "SetLimit"
    /\ limit' = larg[p]
    /\ current' = IF current > larg[p] THEN larg[p] ELSE current
    /\ larg' = [larg EXCEPT ![p] = 0]
    /\ lpc' = [lpc EXCEPT ![p] = "idle"]
    /\ mutex' = 0
    /\ UNCHANGED <<lastAdd, holding, flowVars, stateVars, recvVars, streamVars, apiVars, raceVars>>

\* SetLimit, lines 152-153: the store and the Unlock
SetLimitSet(p) ==
    /\ lpc[p] = "SetLimit"
    /\ limit' = larg[p]
    /\ larg' = [larg EXCEPT ![p] = 0]
    /\ lpc' = [lpc EXCEPT ![p] = "idle"]
    /\ mutex' = 0
    /\ UNCHANGED <<current, lastAdd, holding, flowVars, stateVars, recvVars, streamVars, apiVars, raceVars>>

\* Close is called for a stream that Add admitted
LimitCloseCall(p) ==
    /\ holding > 0
    /\ LimitCall(p, "Close_wait")
    /\ holding' = holding - 1
    /\ UNCHANGED <<limit, current, mutex, larg, lastAdd, flowVars, stateVars, recvVars, streamVars, apiVars, raceVars>>

\* Close, line 177
LimitCloseLock(p) ==
    /\ lpc[p] = "Close_wait"
    /\ Lock(p)
    /\ lpc' = [lpc EXCEPT ![p] = "Close"]
    /\ UNCHANGED <<limit, current, larg, lastAdd, holding, flowVars, stateVars, recvVars, streamVars, apiVars, raceVars>>

\* Close, lines 178-179: the decrement and the Unlock
LimitCloseDec(p) ==
    /\ lpc[p] = "Close"
    /\ current' = CloseDecrement(current)
    /\ lpc' = [lpc EXCEPT ![p] = "idle"]
    /\ mutex' = 0
    /\ UNCHANGED <<limit, larg, lastAdd, holding, flowVars, stateVars, recvVars, streamVars, apiVars, raceVars>>

\* a limiter as newStreamLimit(l) makes it
LimitInit ==
    /\ limit \in Limits /\ LimitIdle
    /\ FlowIdle(0)
    /\ StateIdle
    /\ ApiIdle
    /\ RaceIdle
    /\ RecvIdle

LimitNext ==
    \/ \E p \in Procs : AddCall(p)
    \/ \E p \in Procs : AddLock(p)
    \/ \E p \in Procs : AddCheck(p)
    \/ \E p \in Procs : AddInc(p)
    \/ \E p \in Procs, l \in Limits : SetLimitCall(p, l)
    \/ \E p \in Procs : SetLimitLock(p)
    \/ \E p \in Procs : SetLimitSet(p)
    \/ \E p \in Procs : LimitCloseCall(p)
    \/ \E p \in Procs : LimitCloseLock(p)
    \/ \E p \in Procs : LimitCloseDec(p)

LimitSpec == LimitInit /\ [][LimitNext]_vars

\* ------------------------------------------- Write against UpdateWindow
\* the handler calls Write(n bytes) while the reader calls
\* UpdateWindow(delta) on the same stream; the steps below are the parts
\* of the two methods between which the other task can run
RaceCall(n, delta) ==
    /\ wpc \in {"idle", "done"} /\ upc \in {"idle", "done"}
    /\ written + n <= MaxBytes
    /\ wpc' = "check" /\ upc' = "lock"
    /\ wl' = [arg |-> NextData(n), data |-> NextData(n), window |-> 0]
    /\ ul' = delta
    /\ before' = F
    /\ UNCHANGED <<flowVars, fmutex, limitVars, stateVars, recvVars,
                   streamVars, apiVars>>

\* Write, lines 288-301: the tests, CheckInitialWindow and the Flush of a
\* constrained stream, all without the lock
WriteCheck(conn) ==
    /\ wpc = "check"
    /\ IF Len(wl.arg) = 0
       THEN /\ SetF(F) /\ wpc' = "done"
            /\ last' = [op |-> "Write", err |-> FALSE]
       ELSE IF WriteClosed(F)
       THEN /\ SetF(F) /\ wpc' = "done"
            /\ last' = [op |-> "Write", err |-> TRUE]
       ELSE LET c == CheckInitialWindow(F, conn)
                d == IF c.constrained THEN Flush(c, conn) ELSE c
            IN /\ Len(d.output) <= MaxFrames
               /\ SetF(d) /\ wpc' = "lock"
               /\ UNCHANGED last
    /\ UNCHANGED <<connWindow, written, renegotiated, credit, wl, upc, ul,
                   fmutex, before, limitVars, stateVars, recvVars,
                   streamVars, apiVars>>

\* Write, lines 302-309: the window is read under the lock
WriteLock ==
    /\ wpc = "lock"
    /\ fmutex = 0
    /\ wl' = [wl EXCEPT !.window = IF transferWindow < 0 THEN 0
                                   ELSE transferWindow % Word]
    /\ wpc' = "buffer"
    /\ UNCHANGED <<flowVars, upc, ul, fmutex, before, limitVars, stateVars,
                   recvVars, streamVars, apiVars>>

\* Write, lines 311-318: the part that does not fit is buffered, without
\* the lock
WriteBuffer ==
    /\ wpc = "buffer"
    /\ IF Len(wl.data) > wl.window
       THEN /\ buffer' = Append(buffer, SubSeq(wl.data, wl.window + 1,
                                               Len(wl.data)))
            /\ bufferNil' = FALSE
            /\ wl' = [wl EXCEPT !.data = SubSeq(wl.data, 1, wl.window)]
            /\ sent' = (sent + wl.window) % Word
            /\ transferWindow' = transferWindow - wl.window
            /\ constrained' = TRUE
       ELSE UNCHANGED <<buffer, bufferNil, wl, sent, transferWindow,
                        constrained>>
    /\ wpc' = "emit"
    /\ UNCHANGED <<initialWindow, stream, output, connWindow, written,
                   renegotiated, credit, last, upc, ul, fmutex, before,
                   limitVars, stateVars, recvVars, streamVars, apiVars>>

\* Write, lines 320-329: the part that fits is sent
WriteEmit ==
    /\ wpc = "emit"
    /\ IF Len(wl.data) = 0 THEN UNCHANGED output
       ELSE /\ Len(output) < MaxFrames
            /\ output' = Append(output, DataFrame(wl.data))
    /\ written' = written + Len(wl.arg)
    /\ last' = [op |-> "Write", err |-> FALSE]
    /\ wpc' = "done"
    /\ UNCHANGED <<initialWindow, transferWindow, sent, buffer, bufferNil,
                   constrained, stream, connWindow, renegotiated, credit,
                   wl, upc, ul, fmutex, before, limitVars, stateVars,
                   recvVars, streamVars, apiVars>>

\* UpdateWindow, line 268: f.Lock()
UpdateLock ==
    /\ upc = "lock"
    /\ fmutex = 0
    /\ fmutex' = 1
    /\ upc' = "grow"
    /\ UNCHANGED <<flowVars, wpc, wl, ul, before, limitVars, stateVars,
                   recvVars, streamVars, apiVars>>

\* UpdateWindow, lines 271-277: the test and the addition
UpdateGrow ==
    /\ upc = "grow"
    /\ IF ul + transferWindow > MAX_TRANSFER_WINDOW_SIZE
       THEN /\ upc' = "done" /\ fmutex' = 0
            /\ last' = [op |-> "UpdateWindow", err |-> TRUE]
            /\ UNCHANGED <<transferWindow, credit>>
       ELSE /\ transferWindow' = transferWindow + ul
            /\ credit' = IF renegotiated THEN credit ELSE credit + ul
            /\ upc' = "flush"
            /\ UNCHANGED <<fmutex, last>>
    /\ UNCHANGED <<initialWindow, sent, buffer, bufferNil, constrained,
                   stream, output, connWindow, written, renegotiated, wpc,
                   wl, ul, before, limitVars, stateVars, recvVars,
                   streamVars, apiVars>>

\* UpdateWindow, lines 279-280: Flush and the deferred Unlock
UpdateFlush(conn) ==
    /\ upc = "flush"
    /\ LET res == Flush(F, conn)
       IN /\ Len(res.output) <= MaxFrames
          /\ SetF(res)
    /\ fmutex' = 0
    /\ upc' = "done"
    /\ last' = [op |-> "UpdateWindow", err |-> FALSE]
    /\ UNCHANGED <<connWindow, written, renegotiated, credit, wpc, wl, ul,
                   before, limitVars, stateVars, recvVars, streamVars,
                   apiVars>>

RaceNext ==
    \/ \E n \in 1 .. MaxWriteLen, delta \in Deltas : RaceCall(n, delta)
    \/ \E conn \in Conns : WriteCheck(conn)
    \/ WriteLock
    \/ WriteBuffer
    \/ WriteEmit
    \/ UpdateLock
    \/ UpdateGrow
    \/ \E conn \in Conns : UpdateFlush(conn)

RaceSpec == Init /\ [][RaceNext]_vars

\* ---------------------------------------------------------------- Receive
RstStreamFrame(status) ==
    [type |-> "RST_STREAM", id |-> streamID, status |-> status]

WindowUpdateFrame(delta) ==
    [type |-> "WINDOW_UPDATE", id |-> streamID, delta |-> delta]

\* DefaultFlowControl.ReceiveData
DefaultReceiveData(id, initialWindowSize, newWindowSize) ==
    IF newWindowSize < initialWindowSize \div 2
    THEN (initialWindowSize - newWindowSize) % Word
    ELSE 0

\* f.flowControl.ReceiveData of policy pol
ReceiveData(pol, id, initialWindowSize, newWindowSize) ==
    CASE pol = "default" ->
             DefaultReceiveData(id, initialWindowSize, newWindowSize)
      [] pol = "never" -> 0
      [] pol = "one" -> 1

\* the receiving direction of the flowControl object as a record
R == [initialWindowThere |-> initialWindowThere,
      transferWindowThere |-> transferWindowThere, output |-> output]

\* Receive adding nothing back to the window
ReceiveNoRegrow(r, n, pol) ==
    LET rst == IF r.transferWindowThere < 0
               THEN <<RstStreamFrame("RST_STREAM_FLOW_CONTROL_ERROR")>>
               ELSE <<>>
        w == r.transferWindowThere - n
        delta == ReceiveData(pol, streamID, r.initialWindowThere, w)
        grow == IF delta # 0 THEN <<WindowUpdateFrame(delta)>> ELSE <<>>
    IN [f |-> [r EXCEPT !.transferWindowThere = w,
                        !.output = @ \o rst \o grow],
        asked |-> <<streamID, r.initialWindowThere, w>>,
        delta |-> delta, frames |-> rst \o grow]

\* Receive of a payload of n bytes; result: [f |-> the object, asked |->
\* the arguments given to the policy, delta |-> its answer, frames |-> the
\* frames put on the output channel]
Receive(r, n, pol) ==
    LET rst == IF r.transferWindowThere < 0
               THEN <<RstStreamFrame("RST_STREAM_FLOW_CONTROL_ERROR")>>
               ELSE <<>>
        w == r.transferWindowThere - n
        delta == ReceiveData(pol, streamID, r.initialWindowThere, w)
        grow == IF delta # 0 THEN <<WindowUpdateFrame(delta)>> ELSE <<>>
    IN [f |-> [r EXCEPT !.transferWindowThere =
                            IF delta # 0 THEN w + delta ELSE w,
                        !.output = @ \o rst \o grow],
        asked |-> <<streamID, r.initialWindowThere, w>>,
        delta |-> delta, frames |-> rst \o grow]

\* the reader hands the payload of an inbound DATA frame to the stream
DoReceive(n) ==
    /\ received < MaxReceives
    /\ LET res == Receive(R, n, policy)
       IN /\ transferWindowThere' = res.f.transferWindowThere
          /\ output' = res.f.output
          /\ rlast' = [n |-> n, before |-> transferWindowThere,
                       asked |-> res.asked, delta |-> res.delta,
                       frames |-> res.frames]
    /\ received' = received + 1
    /\ UNCHANGED <<initialWindow, transferWindow, sent, buffer, bufferNil,
                   constrained, stream, connWindow, written, renegotiated,
                   credit, last, kind, policy, initialWindowThere,
                   limitVars, stateVars, streamVars, apiVars, raceVars>>

\* a stream of any kind after AddFlowControl with any policy
RecvInit ==
    /\ \E k \in Kinds, pol \in Policies, w \in InitialWindowsThere :
           RecvAdded(k, pol, w)
    /\ FlowIdle(0)
    /\ limit = NO_STREAM_LIMIT /\ LimitIdle
    /\ StateIdle
    /\ ApiIdle
    /\ RaceIdle

RecvNext == \E n \in Payloads : DoReceive(n)

RecvSpec == RecvInit /\ [][RecvNext]_vars

\* ----------------------------------------------------- both directions
\* one Receive among the Writes and WINDOW_UPDATEs of a stream
FrameReceive(n) == received = 0 /\ DoReceive(n)

\* a stream of the server after AddFlowControl with any policy and the
\* largest receive window, on a connection with initial window 1
FrameInit ==
    /\ \E pol \in Policies : RecvAdded("server", pol, MAX_TRANSFER_WINDOW_SIZE)
    /\ FlowIdle(1)
    /\ limit = NO_STREAM_LIMIT /\ LimitIdle
    /\ StateIdle
    /\ ApiIdle
    /\ RaceIdle

FrameNext ==
    \/ \E n \in 0 .. MaxWriteLen, conn \in Conns : DoWrite(n, conn)
    \/ \E delta \in Deltas, conn \in Conns : DoUpdateWindow(delta, conn)
    \/ \E n \in Payloads : FrameReceive(n)

FrameSpec == FrameInit /\ [][FrameNext]_vars

\* --------------------------------------------------------- AddFlowControl
\* the stream's flow field as a record: the object it points to, or the
\* zero value of every field while it is nil
S == [attached |-> attached, policy |-> policy,
      initialWindow |-> initialWindow, transferWindow |-> transferWindow,
      sent |-> sent, buffer |-> buffer, bufferNil |-> bufferNil,
      constrained |-> constrained, stream |-> stream, output |-> output,
      initialWindowThere |-> initialWindowThere,
      transferWindowThere |-> transferWindowThere]

\* new(flowControl), attached to the stream whose output channel holds out
NewFlowControl(out) ==
    [attached |-> TRUE, policy |-> "nil",
     initialWindow |-> 0, transferWindow |-> 0, sent |-> 0,
     buffer |-> <<>>, bufferNil |-> TRUE, constrained |-> FALSE,
     stream |-> FALSE, output |-> out,
     initialWindowThere |-> 0, transferWindowThere |-> 0]

\* AddFlowControl initialising a stream each time it is called
AddFlowControlAgain(st, k, pol, w, conn) ==
    LET n == NewFlowControl(st.output)
    IN IF ~conn.ok THEN n
       ELSE [n EXCEPT !.buffer = <<>>, !.bufferNil = FALSE,
                      !.initialWindow = conn.window,
                      !.transferWindow = conn.window,
                      !.stream = TRUE, !.policy = pol,
                      !.initialWindowThere = w,
                      !.transferWindowThere =
                          IF k = "push" THEN n.transferWindowThere ELSE w]

\* AddFlowControl(f) of a stream of kind k: f is policy pol with
\* InitialWindowSize() = w, conn the answer of s.conn.InitialWindowSize().
\* The three methods differ in the last assignment only: the push stream
\* assigns transferWindowThere from itself.
AddFlowControl(st, k, pol, w, conn) ==
    IF st.attached THEN st
    ELSE LET n == NewFlowControl(st.output)
         IN IF ~conn.ok THEN n
            ELSE [n EXCEPT !.buffer = <<>>, !.bufferNil = FALSE,
                           !.initialWindow = conn.window,
                           !.transferWindow = conn.window,
                           !.stream = TRUE, !.policy = pol,
                           !.initialWindowThere = w,
                           !.transferWindowThere =
                               IF k = "push" THEN n.transferWindowThere
                               ELSE w]

\* a handler (or the engine) calls AddFlowControl on the stream
DoAddFlowControl(pol, w, conn) ==
    /\ LET a == AddFlowControl(S, kind, pol, w, conn)
       IN /\ SetF(a)
          /\ attached' = a.attached
          /\ policy' = a.policy
          /\ initialWindowThere' = a.initialWindowThere
          /\ transferWindowThere' = a.transferWindowThere
    /\ last' = [op |-> "AddFlowControl", err |-> ~conn.ok]
    /\ UNCHANGED <<connWindow, written, renegotiated, credit, kind,
                   received, rlast, limitVars, stateVars, apiVars, raceVars>>

\* a Write on a stream whose flow control is initialised
AddWrite(n, conn) ==
    /\ attached /\ stream /\ conn.ok
    /\ DoWrite(n, conn)

\* the first Receive on a stream whose flow control is initialised
AddReceive(n) ==
    /\ attached /\ stream /\ received = 0
    /\ DoReceive(n)

\* a stream of any kind without flow control, on a connection with any
\* initial window
AddInit ==
    /\ attached = FALSE
    /\ kind \in Kinds
    /\ connWindow \in InitialWindows
    /\ policy = "nil"
    /\ initialWindow = 0 /\ transferWindow = 0 /\ sent = 0
    /\ buffer = <<>> /\ bufferNil = TRUE /\ constrained = FALSE
    /\ stream = FALSE /\ output = <<>>
    /\ initialWindowThere = 0 /\ transferWindowThere = 0
    /\ written = 0 /\ renegotiated = FALSE /\ credit = 0
    /\ last = [op |-> "none", err |-> FALSE]
    /\ received = 0
    /\ rlast = [n |-> 0, before |-> 0, asked |-> <<>>, delta |-> 0,
                frames |-> <<>>]
    /\ limit = NO_STREAM_LIMIT /\ LimitIdle
    /\ StateIdle
    /\ ApiIdle
    /\ RaceIdle

AddNext ==
    \/ \E pol \in Policies, w \in InitialWindowsThere, conn \in Conns :
           DoAddFlowControl(pol, w, conn)
    \/ \E n \in 0 .. MaxWriteLen, conn \in Conns : AddWrite(n, conn)
    \/ \E n \in Payloads : AddReceive(n)

AddSpec == AddInit /\ [][AddNext]_vars

\* ------------------------------------------------- package-level functions
RST_STREAM_PROTOCOL_ERROR == 1
RST_STREAM_UNSUPPORTED_VERSION == 4
RST_STREAM_INTERNAL_ERROR == 6
RST_STREAM_FRAME_TOO_LARGE == 11

\* StatusCodeIsFatal calling a flow-control error fatal as well
StatusCodeIsFatalFlow(code) ==
    code \in {RST_STREAM_PROTOCOL_ERROR, RST_STREAM_INTERNAL_ERROR,
              RST_STREAM_FRAME_TOO_LARGE, RST_STREAM_UNSUPPORTED_VERSION, 7}

StatusCodeIsFatal(code) ==
    CASE code = RST_STREAM_PROTOCOL_ERROR -> TRUE
      [] code = RST_STREAM_INTERNAL_ERROR -> TRUE
      [] code = RST_STREAM_FRAME_TOO_LARGE -> TRUE
      [] code = RST_STREAM_UNSUPPORTED_VERSION -> TRUE
      [] OTHER -> FALSE

maxVersion == 3
minVersion == 2

SupportedVersion(sv, v) == v \in sv

\* EnableSpdyVersion taking every version but 0
EnableSpdyVersionAny(sv, v) ==
    IF v = 0 THEN [set |-> sv, err |-> TRUE]
    ELSE [set |-> sv \cup {v}, err |-> FALSE]

\* result: [set |-> the map's keys afterwards, err |-> an error returned]
EnableSpdyVersion(sv, v) ==
    IF v = 0 THEN [set |-> sv, err |-> TRUE]
    ELSE IF v < minVersion THEN [set |-> sv, err |-> TRUE]
    ELSE IF v > maxVersion THEN [set |-> sv, err |-> TRUE]
    ELSE [set |-> sv \cup {v}, err |-> FALSE]

DisableSpdyVersion(sv, v) ==
    IF v = 0 THEN [set |-> sv, err |-> TRUE]
    ELSE IF v < minVersion THEN [set |-> sv, err |-> TRUE]
    ELSE IF v > maxVersion THEN [set |-> sv, err |-> TRUE]
    ELSE [set |-> sv \ {v}, err |-> FALSE]

\* the largest element of a non-empty set of integers
Max(set) == CHOOSE m \in set : \A x \in set : x <= m

RECURSIVE SortAscending(_)
\* the elements of a set in ascending order
SortAscending(set) ==
    IF set = {} THEN <<>>
    ELSE Append(SortAscending(set \ {Max(set)}), Max(set))

RECURSIVE SortReverse(_)
\* sort.Sort(sort.Reverse(sort.IntSlice(s))) of the keys collected from
\* the map, whatever the order the range clause gave them in
SortReverse(set) ==
    IF set = {} THEN <<>>
    ELSE <<Max(set)>> \o SortReverse(set \ {Max(set)})

\* SupportedVersions with sort.Sort(sort.IntSlice(s)), oldest first
SupportedVersionsAscending(sv) == SortAscending(sv)

SupportedVersions(sv) == SortReverse(sv)

\* a string as the sequence of its characters
HttpToken == <<"h", "t", "t", "p", "/", "1", ".", "1">>

Digit(d) == <<"0", "1", "2", "3", "4", "5", "6", "7", "8", "9">>[d + 1]

RECURSIVE Decimal(_)
\* the verb %d for a non-negative integer
Decimal(n) ==
    IF n < 10 THEN <<Digit(n)>>
    ELSE Append(Decimal(n \div 10), Digit(n % 10))

\* fmt.Sprintf("spdy/%d", v)
SpdyToken(v) == <<"s", "p", "d", "y", "/">> \o Decimal(v)

NpnStrings(sv) ==
    LET v == SupportedVersions(sv)
    IN Append([i \in 1 .. Len(v) |-> SpdyToken(v[i])], HttpToken)

\* the types that implement Stream
StreamTypes == {"serverStreamV2", "serverStreamV3", "pushStreamV3",
                "clientStreamV3"}

\* results of the functions taking a ResponseWriter:
\* [ret |-> integer result, ok |-> boolean result, err |-> the error,
\*  conn |-> the method of the stream's connection that was called]
WriterResult(ret, ok, err, conn) ==
    [ret |-> ret, ok |-> ok, err |-> err, conn |-> conn]

\* GetPriority returning priority 0 and no error for other writers
GetPriorityNoError(w, priority) ==
    IF w \in {"serverStreamV3", "serverStreamV2"}
    THEN WriterResult(priority, FALSE, "nil", "none")
    ELSE WriterResult(0, FALSE, "nil", "none")

\* priority is the priority field of the stream
GetPriority(w, priority) ==
    IF w = "serverStreamV3" THEN WriterResult(priority, FALSE, "nil", "none")
    ELSE IF w = "serverStreamV2"
    THEN WriterResult(priority, FALSE, "nil", "none")
    ELSE WriterResult(0, FALSE, "ErrNotSPDY", "none")

\* connErr is what the connection's method returns: "nil" or "error"; the
\* integer result is 1 for a non-nil channel, push stream
PingClient(w, connErr) ==
    IF w \notin StreamTypes THEN WriterResult(0, FALSE, "ErrNotSPDY", "none")
    ELSE WriterResult(IF connErr = "nil" THEN 1 ELSE 0, FALSE, connErr, "Ping")

Push(w, connErr) ==
    IF w \notin StreamTypes THEN WriterResult(0, FALSE, "ErrNotSPDY", "none")
    ELSE WriterResult(IF connErr = "nil" THEN 1 ELSE 0, FALSE, connErr, "Push")

SetFlowControl(w, connErr) ==
    IF w \notin StreamTypes THEN WriterResult(0, FALSE, "ErrNotSPDY", "none")
    ELSE WriterResult(0, FALSE, connErr, "SetFlowControl")

\* the type of the connection of a stream
ConnTypeOf(w) == IF w = "serverStreamV2" THEN "connV2" ELSE "connV3"

\* the version in tenths; subversion is the field of a connV3
SPDYversion(w, subversion) ==
    IF w \in StreamTypes
    THEN IF ConnTypeOf(w) = "connV3"
         THEN CASE subversion = 0 -> WriterResult(30, FALSE, "nil", "none")
                [] subversion = 1 -> WriterResult(31, FALSE, "nil", "none")
                [] OTHER -> WriterResult(0, FALSE, "nil", "none")
         ELSE WriterResult(20, FALSE, "nil", "none")
    ELSE WriterResult(0, FALSE, "nil", "none")

UsingSPDY(w) == WriterResult(0, w \in StreamTypes, "nil", "none")

\* NewServerConn accepting every version from 2 on as SPDY/3
NewServerConnLax(conn, server, version) ==
    IF conn = "nil" \/ server = "nil" THEN [conn |-> NilConn, err |-> TRUE]
    ELSE IF version >= 20
    THEN [conn |-> [type |-> "connV3", subversion |-> 0, nextPingID |-> 2,
                    pushStreamLimit |-> NO_STREAM_LIMIT, outputs |-> 8],
          err |-> FALSE]
    ELSE [conn |-> NilConn, err |-> TRUE]

\* conn and server are "nil" or "set"; version is in tenths
NewServerConn(conn, server, version) ==
    IF conn = "nil" THEN [conn |-> NilConn, err |-> TRUE]
    ELSE IF server = "nil" THEN [conn |-> NilConn, err |-> TRUE]
    ELSE CASE version = 30 ->
                  [conn |-> [type |-> "connV3", subversion |-> 0,
                             nextPingID |-> 2,
                             pushStreamLimit |-> NO_STREAM_LIMIT,
                             outputs |-> 8],
                   err |-> FALSE]
           [] version = 31 ->
                  [conn |-> [type |-> "connV3", subversion |-> 1,
                             nextPingID |-> 2,
                             pushStreamLimit |-> NO_STREAM_LIMIT,
                             outputs |-> 8],
                   err |-> FALSE]
           [] version = 20 ->
                  [conn |-> [type |-> "connV2", subversion |-> 0,
                             nextPingID |-> 2,
                             pushStreamLimit |-> NO_STREAM_LIMIT,
                             outputs |-> 8],
                   err |-> FALSE]
           [] OTHER -> [conn |-> NilConn, err |-> TRUE]

\* the record of a call
Called(op, v, w, res) ==
    [op |-> op, v |-> v, w |-> w, ret |-> res.ret, ok |-> res.ok,
     err |-> res.err, conn |-> res.conn]

ApiOthers == <<flowVars, limitVars, stateVars, recvVars, streamVars,
              raceVars>>

DoStatusCodeIsFatal(code) ==
    /\ alast' = Called("StatusCodeIsFatal", code, "nil",
                       WriterResult(0, StatusCodeIsFatal(code), "nil", "none"))
    /\ UNCHANGED <<supportedVersions, made, ApiOthers>>

DoEnableSpdyVersion(v) ==
    /\ LET res == EnableSpdyVersion(supportedVersions, v)
       IN /\ supportedVersions' = res.set
          /\ alast' = Called("EnableSpdyVersion", v, "nil",
                   WriterResult(0, FALSE, IF res.err THEN "error" ELSE "nil",
                                "none"))
    /\ UNCHANGED <<made, ApiOthers>>

DoDisableSpdyVersion(v) ==
    /\ LET res == DisableSpdyVersion(supportedVersions, v)
       IN /\ supportedVersions' = res.set
          /\ alast' = Called("DisableSpdyVersion", v, "nil",
                   WriterResult(0, FALSE, IF res.err THEN "error" ELSE "nil",
                                "none"))
    /\ UNCHANGED <<made, ApiOthers>>

\* a handler calls one of the functions that take its ResponseWriter
DoWriterCall(op, w, n, connErr) ==
    /\ alast' = Called(op, n, w,
           CASE op = "GetPriority" -> GetPriority(w, n)
             [] op = "PingClient" -> PingClient(w, connErr)
             [] op = "Push" -> Push(w, connErr)
             [] op = "SetFlowControl" -> SetFlowControl(w, connErr)
             [] op = "SPDYversion" -> SPDYversion(w, n)
             [] op = "UsingSPDY" -> UsingSPDY(w))
    /\ UNCHANGED <<supportedVersions, made, ApiOthers>>

DoNewServerConn(conn, server, version) ==
    /\ LET res == NewServerConn(conn, server, version)
       IN /\ made' = res.conn
          /\ alast' = Called("NewServerConn", version,
                   IF conn = "nil" THEN "nil conn"
                   ELSE IF server = "nil" THEN "nil server" ELSE "set",
                   WriterResult(0, FALSE, IF res.err THEN "error" ELSE "nil",
                                "none"))
    /\ UNCHANGED <<supportedVersions, ApiOthers>>

WriterOps == {"GetPriority", "PingClient", "Push", "SetFlowControl",
              "SPDYversion", "UsingSPDY"}

ApiInit ==
    /\ ApiIdle
    /\ RaceIdle
    /\ FlowIdle(0)
    /\ limit = NO_STREAM_LIMIT /\ LimitIdle
    /\ RecvIdle
    /\ s = STATE_OPEN /\ smutex = 0
    /\ spc = [t \in Tasks |-> <<"none", "idle">>]
    /\ slast = [op |-> "none", from |-> STATE_OPEN, to |-> STATE_OPEN]

ApiNext ==
    \/ \E code \in StatusCodes : DoStatusCodeIsFatal(code)
    \/ \E v \in VersionArgs : DoEnableSpdyVersion(v)
    \/ \E v \in VersionArgs : DoDisableSpdyVersion(v)
    \/ \E op \in WriterOps, w \in Writers, n \in Priorities,
          connErr \in {"nil", "error"} : DoWriterCall(op, w, n, connErr)
    \/ \E conn \in {"nil", "set"}, server \in {"nil", "set"},
          version \in ConnVersions : DoNewServerConn(conn, server, version)

ApiSpec == ApiInit /\ [][ApiNext]_vars

\* ------------------------------------------------------------ StreamState
\* Close closing only a stream that is open in both directions
StreamStateCloseOpenOnly(st) ==
    IF st = STATE_OPEN THEN STATE_CLOSED ELSE st

\* Close, line 261
StreamStateClose(st) == STATE_CLOSED

\* CloseHere closing the stream from every state but OPEN
CloseHereAlways(st) ==
    IF st = STATE_OPEN THEN STATE_HALF_CLOSED_HERE ELSE STATE_CLOSED

CloseHere(st) ==
    IF st = STATE_OPEN THEN STATE_HALF_CLOSED_HERE
    ELSE IF st = STATE_HALF_CLOSED_THERE THEN STATE_CLOSED
    ELSE st

\* CloseThere closing the stream from every state but OPEN
CloseThereAlways(st) ==
    IF st = STATE_OPEN THEN STATE_HALF_CLOSED_THERE ELSE STATE_CLOSED

CloseThere(st) ==
    IF st = STATE_OPEN THEN STATE_HALF_CLOSED_THERE
    ELSE IF st = STATE_HALF_CLOSED_HERE THEN STATE_CLOSED
    ELSE st

\* the queries, each on the value of s it reads under RLock
Open(st) == st = STATE_OPEN

Closed(st) == st = STATE_CLOSED

\* ClosedThere missing a stream that is closed on both sides
ClosedThereHalfOnly(st) == st = STATE_HALF_CLOSED_THERE

ClosedThere(st) == st = STATE_CLOSED \/ st = STATE_HALF_CLOSED_THERE

OpenThere(st) == ~ClosedThere(st)

ClosedHere(st) == st = STATE_CLOSED \/ st = STATE_HALF_CLOSED_HERE

OpenHere(st) == ~ClosedHere(st)

StateOps == {"Close", "CloseHere", "CloseThere"}

\* a task calls a method
StateCall(t, op) ==
    /\ spc[t][2] = "idle"
    /\ spc' = [spc EXCEPT ![t] = <<op, "lock">>]
    /\ UNCHANGED <<s, smutex, slast, flowVars, limitVars, recvVars, streamVars, apiVars, raceVars>>

\* s.Lock()
StateLock(t) ==
    /\ spc[t][2] = "lock"
    /\ smutex = 0
    /\ smutex' = t
    /\ spc' = [spc EXCEPT ![t] = <<spc[t][1], "body">>]
    /\ UNCHANGED <<s, slast, flowVars, limitVars, recvVars, streamVars, apiVars, raceVars>>

\* the body of the method and s.Unlock()
StateBody(t, op, new) ==
    /\ spc[t] = <<op, "body">>
    /\ s' = new
    /\ slast' = [op |-> op, from |-> s, to |-> new]
    /\ smutex' = 0
    /\ spc' = [spc EXCEPT ![t] = <<"none", "idle">>]
    /\ UNCHANGED <<flowVars, limitVars, recvVars, streamVars, apiVars, raceVars>>

\* Close putting the zero value back
CloseBodyReset(t) == StateBody(t, "Close", STATE_OPEN)

CloseBody(t) == StateBody(t, "Close", StreamStateClose(s))
CloseHereBody(t) == StateBody(t, "CloseHere", CloseHere(s))
\* CloseThere closing the stream whatever the local side did
CloseThereBodyCloses(t) == StateBody(t, "CloseThere", STATE_CLOSED)

CloseThereBody(t) == StateBody(t, "CloseThere", CloseThere(s))

\* a zero-value StreamState
StateInit ==
    /\ StateIdle
    /\ ApiIdle
    /\ RaceIdle
    /\ FlowIdle(0)
    /\ limit = NO_STREAM_LIMIT /\ LimitIdle
    /\ RecvIdle

StateNext ==
    \/ \E t \in Tasks, op \in StateOps : StateCall(t, op)
    \/ \E t \in Tasks : StateLock(t)
    \/ \E t \in Tasks : CloseBody(t)
    \/ \E t \in Tasks : CloseHereBody(t)
    \/ \E t \in Tasks : CloseThereBody(t)

StateSpec == StateInit /\ [][StateNext]_vars

\* ------------------------------------------------------------- properties
IsData(fr) == fr.type = "DATA"

\* the payloads of the DATA frames of a channel, concatenated
EmittedOf(out) ==
    LET ds == SelectSeq(out, IsData)
    IN Concat([i \in 1 .. Len(ds) |-> ds[i].data])

\* the payload bytes emitted so far
Emitted == EmittedOf(output)

\* C1: while the connection's initial window is unchanged, the payload
\* bytes emitted never exceed the initial window plus the accepted deltas,
\* and transferWindow equals that credit minus the bytes emitted.
C1_WindowAccounting ==
    ~renegotiated =>
        /\ Len(Emitted) <= credit
        /\ transferWindow = credit - Len(Emitted)

\* C2: on a flow control that was not closed, the emitted payloads followed
\* by the buffered chunks are exactly the accepted bytes, in call order.
C2_NoLossNoReorder ==
    stream => Emitted \o Concat(buffer) = Bytes(1, written)

\* what a Write of n > 0 bytes has to leave behind when the send window
\* before the call is W
C3_Post(n, res) ==
    LET W == transferWindow
        data == NextData(n)
    IN IF W >= n
       THEN /\ res.f.output = Append(output, DataFrame(data))
            /\ res.f.buffer = buffer
            /\ ~res.f.constrained
       ELSE /\ res.f.output = IF W = 0 THEN output
                              ELSE Append(output, DataFrame(SubSeq(data, 1, W)))
            /\ res.f.buffer = Append(buffer, SubSeq(data, W + 1, n))
            /\ res.f.constrained

\* C3: Write of N > 0 bytes on an open, unconstrained stream with send
\* window W emits all N bytes in one DATA frame, buffers nothing and stays
\* unconstrained when W >= N; otherwise it emits exactly the first W bytes
\* (no frame when W = 0), appends the other N - W to the buffer and marks
\* the stream constrained.
C3_WriteSplitsAtWindow ==
    \A n \in 1 .. MaxWriteLen, conn \in Conns :
        (/\ stream /\ ~bufferNil /\ ~constrained
         /\ initialWindow = connWindow)
        => C3_Post(n, Write(F, NextData(n), conn))

\* C4: Write returns (len(data), nil) whenever the flow control is not
\* closed, whatever the window and the constrained flag; on a closed flow
\* control a non-empty Write returns (0, error), emits nothing and changes
\* no field; an empty Write returns (0, nil) and changes nothing.
C4_WriteNeverRefuses ==
    \A n \in 0 .. MaxWriteLen, conn \in Conns :
        LET res == Write(F, NextData(n), conn)
        IN /\ (n = 0) => (res.n = 0 /\ ~res.err /\ res.f = F)
           /\ (n > 0 /\ ~stream) => (res.n = 0 /\ res.err /\ res.f = F)
           /\ (n > 0 /\ stream) => (res.n = n /\ ~res.err)

\* a non-empty Write was accepted in full although the window was used up
\* and earlier data was still waiting
C4_Witness ==
    /\ last.op = "Write" /\ ~last.err
    /\ constrained /\ transferWindow = 0 /\ Len(buffer) >= 2

\* C5: UpdateWindow(delta) with delta + transferWindow >
\* MAX_TRANSFER_WINDOW_SIZE returns an error, emits nothing and leaves
\* transferWindow, buffer and constrained unchanged; a sum equal to the
\* maximum is accepted, and an accepted call grows the window by exactly
\* delta (less the bytes its flush emits).
C5_UpdateWindowOverflow ==
    \A delta \in Deltas, conn \in Conns :
        LET res == UpdateWindow(F, delta, conn)
        IN IF delta + transferWindow > MAX_TRANSFER_WINDOW_SIZE
           THEN /\ res.err
                /\ res.f.transferWindow = transferWindow
                /\ res.f.buffer = buffer
                /\ res.f.constrained = constrained
                /\ res.f.output = output
           ELSE /\ ~res.err
                /\ (~stream \/ ~conn.ok \/ initialWindow = connWindow) =>
                      res.f.transferWindow + Len(EmittedOf(res.f.output)) =
                          transferWindow + delta + Len(Emitted)

\* an UpdateWindow was refused although data was waiting in the buffer
C5_Witness ==
    /\ last.op = "UpdateWindow" /\ last.err
    /\ buffer # <<>> /\ transferWindow > 0

\* C6: the send window stays within 0 .. MAX_TRANSFER_WINDOW_SIZE, also
\* after the connection's initial window was renegotiated.
C6_WindowInRange ==
    /\ 0 <= transferWindow
    /\ transferWindow <= MAX_TRANSFER_WINDOW_SIZE

\* C7 as stated: the count of active streams is at most the limit in every
\* reachable state.
C7_CurrentWithinLimit == current <= limit

\* C7 amended: no step raises the count of active streams above the limit
\* in force, and only a step that lowers the limit can leave the count
\* above it.
C7_AddKeepsWithinLimit ==
    [][/\ (current' > current) => (current' <= limit')
       /\ (current <= limit /\ limit' >= limit) => (current' <= limit')]_vars

\* the limiter is full and an Add was refused
C7_Witness ==
    /\ limit > 0 /\ current = limit /\ holding = current
    /\ lastAdd = "false"

\* C8: Add returns true exactly when current < limit held when it took the
\* lock, then current has grown by exactly one; otherwise it returns false
\* and current and limit are unchanged; an admitted stream never takes the
\* count above the limit.
C8_AddAdmitsBelowLimit ==
    [][\A p \in Procs :
          /\ (lpc[p] = "Add" /\ lpc'[p] = "idle") =>
                /\ current >= limit
                /\ lastAdd' = "false"
                /\ current' = current /\ limit' = limit
          /\ (lpc[p] = "Add" /\ lpc'[p] = "Add_inc") =>
                /\ current < limit
                /\ current' = current /\ limit' = limit
          /\ (lpc[p] = "Add_inc" /\ lpc'[p] = "idle") =>
                /\ current < limit
                /\ lastAdd' = "true"
                /\ current' = current + 1 /\ limit' = limit
                /\ current' <= limit']_vars

\* with one free slot one Add was admitted and the next one refused
C8_Witness ==
    /\ limit = 1 /\ current = 1 /\ holding = 1
    /\ lastAdd = "false" /\ \A p \in Procs : lpc[p] = "idle"

\* C9: SetLimit changes the limit and nothing else; while current >= limit
\* Add returns false and admits nothing, and with NO_STREAM_LIMIT every
\* Add is admitted.
C9_SetLimitOnlyLimit ==
    [][\A p \in Procs :
          /\ (lpc[p] = "SetLimit" /\ lpc'[p] = "idle") =>
                /\ limit' = larg[p]
                /\ current' = current /\ holding' = holding
                /\ lastAdd' = lastAdd
          /\ (lpc[p] = "Add" /\ lpc'[p] # "Add" /\ current >= limit) =>
                (lastAdd' = "false" /\ current' = current)
          /\ (lpc[p] = "Add" /\ lpc'[p] # "Add"
                /\ limit = NO_STREAM_LIMIT) =>
                lpc'[p] = "Add_inc"]_vars

\* the limit was lowered below the count of active streams, the streams
\* are still counted and an Add was refused
C9_Witness ==
    /\ current > limit /\ holding = current
    /\ lastAdd = "false"

\* C10: CloseHere moves OPEN to HALF_CLOSED_HERE and HALF_CLOSED_THERE to
\* CLOSED, leaves HALF_CLOSED_HERE and CLOSED as they are, and a second
\* CloseHere changes nothing.
C10_CloseHereTable ==
    [][\A t \in Tasks :
          (spc[t] = <<"CloseHere", "body">> /\ spc'[t][2] = "idle") =>
            /\ (s = STATE_OPEN) => (s' = STATE_HALF_CLOSED_HERE)
            /\ (s = STATE_HALF_CLOSED_THERE) => (s' = STATE_CLOSED)
            /\ (s \in {STATE_HALF_CLOSED_HERE, STATE_CLOSED}) => (s' = s)
            /\ CloseHere(s') = s']_vars

\* CloseHere closed a stream that was half-closed by the peer
C10_Witness ==
    /\ slast.op = "CloseHere"
    /\ slast.from = STATE_HALF_CLOSED_THERE /\ slast.to = STATE_CLOSED

\* C11: CloseThere moves OPEN to HALF_CLOSED_THERE and HALF_CLOSED_HERE to
\* CLOSED, leaves HALF_CLOSED_THERE and CLOSED as they are, and a repeated
\* CloseThere has no further effect.
C11_CloseThereTable ==
    [][\A t \in Tasks :
          (spc[t] = <<"CloseThere", "body">> /\ spc'[t][2] = "idle") =>
            /\ (s = STATE_OPEN) => (s' = STATE_HALF_CLOSED_THERE)
            /\ (s = STATE_HALF_CLOSED_HERE) => (s' = STATE_CLOSED)
            /\ (s \in {STATE_HALF_CLOSED_THERE, STATE_CLOSED}) => (s' = s)
            /\ CloseThere(s') = s']_vars

\* CloseThere closed a stream that was half-closed locally
C11_Witness ==
    /\ slast.op = "CloseThere"
    /\ slast.from = STATE_HALF_CLOSED_HERE /\ slast.to = STATE_CLOSED

\* C12: Close moves the stream to CLOSED from every state and is
\* idempotent.
C12_CloseFromEveryState ==
    [][\A t \in Tasks :
          (spc[t] = <<"Close", "body">> /\ spc'[t][2] = "idle") =>
            /\ s' = STATE_CLOSED
            /\ StreamStateClose(s') = s']_vars

\* Close closed a stream that was half-closed by the peer
C12_Witness ==
    /\ slast.op = "Close"
    /\ slast.from = STATE_HALF_CLOSED_THERE /\ slast.to = STATE_CLOSED

\* C13: over every interleaving of Close, CloseHere and CloseThere the
\* state only moves forward: it never returns to OPEN, never moves from one
\* half-closed state to the other, and CLOSED is never left.
C13_StateMonotonic ==
    [][/\ (s # STATE_OPEN) => (s' # STATE_OPEN)
       /\ (s = STATE_HALF_CLOSED_HERE) => (s' # STATE_HALF_CLOSED_THERE)
       /\ (s = STATE_HALF_CLOSED_THERE) => (s' # STATE_HALF_CLOSED_HERE)
       /\ (s = STATE_CLOSED) => (s' = STATE_CLOSED)]_vars

\* a method ran on a closed stream while another task was waiting for the
\* lock
C13_Witness ==
    /\ slast.from = STATE_CLOSED /\ slast.op # "none"
    /\ \E t \in Tasks : spc[t][2] = "lock"

IsRst(fr) == fr.type = "RST_STREAM"

IsWindowUpdate(fr) == fr.type = "WINDOW_UPDATE"

\* C14: Receive emits RST_STREAM with status FLOW_CONTROL_ERROR whenever
\* the payload is longer than the receive window remaining before it, for
\* every flow-control policy.
C14_NegativeWindowIsReset ==
    (received > 0 /\ rlast.n > rlast.before) =>
        \E i \in 1 .. Len(rlast.frames) :
            /\ IsRst(rlast.frames[i])
            /\ rlast.frames[i].status = "RST_STREAM_FLOW_CONTROL_ERROR"

\* C15: every Receive first decreases the receive window by the payload
\* length and then asks the policy with (stream id, initial window, window
\* after the decrease); a non-zero answer puts exactly one WINDOW_UPDATE
\* with that delta on the output and adds the delta to the window, an
\* answer of 0 puts no WINDOW_UPDATE and the window keeps the decreased
\* value.
C15_ReceiveAsksPolicy ==
    (received > 0) =>
        LET w == rlast.before - rlast.n
            delta == ReceiveData(policy, streamID, initialWindowThere, w)
            grows == SelectSeq(rlast.frames, IsWindowUpdate)
        IN /\ rlast.asked = <<streamID, initialWindowThere, w>>
           /\ rlast.delta = delta
           /\ IF delta > 0
              THEN /\ grows = <<WindowUpdateFrame(delta)>>
                   /\ transferWindowThere = w + delta
              ELSE /\ grows = <<>>
                   /\ transferWindowThere = w
           /\ Len(output) >= Len(rlast.frames)
           /\ SubSeq(output, Len(output) - Len(rlast.frames) + 1,
                     Len(output)) = rlast.frames

\* a Receive took the window below zero and the policy grew it again
C15_Witness ==
    /\ received > 0 /\ rlast.n > rlast.before /\ rlast.delta > 0
    /\ policy = "one" /\ transferWindowThere = rlast.before - rlast.n + 1

\* C16: the default policy answers initial - current when current <
\* initial / 2 and 0 otherwise; so on a stream whose receive window started
\* at its initial size the window after a Receive is either the decreased
\* one and at least initial / 2, or exactly the initial size.
C16_DefaultPolicyRegrows ==
    (received > 0 /\ policy = "default") =>
        LET initial == rlast.asked[2]
            w == rlast.asked[3]
        IN /\ rlast.delta = IF w < initial \div 2 THEN initial - w ELSE 0
           /\ (kind # "push") =>
                 \/ /\ transferWindowThere = rlast.before - rlast.n
                    /\ transferWindowThere >= initialWindowThere \div 2
                 \/ transferWindowThere = initialWindowThere

\* C17: when the connection's initial window changed from W0 to W1 on an
\* open stream, the next CheckInitialWindow changes the send window by
\* exactly W1 - W0, upwards and downwards and whatever updates and writes
\* came before; the stream is constrained if the result is <= 0, and a
\* second check changes nothing.
C17_RenegotiationDelta ==
    \A conn \in Conns :
        (stream /\ conn.ok /\ initialWindow # conn.window) =>
            LET c == CheckInitialWindow(F, conn)
            IN /\ c.transferWindow =
                      transferWindow + (conn.window - initialWindow)
               /\ (c.transferWindow <= 0) => c.constrained
               /\ CheckInitialWindow(c, conn) = c

\* C18: whenever Paused returns false the send buffer is empty, after any
\* sequence of Write, UpdateWindow and Flush with any number of buffered
\* chunks.
C18_NotPausedMeansDrained ==
    \A conn \in Conns :
        LET p == Paused(F, conn)
        IN ~p.ret => (p.f.buffer = <<>>)

\* C19: on an open stream (here one whose connection never changed its
\* initial window) Paused returns true only while data is buffered: with
\* an empty buffer it returns false, also when the last flush took the
\* send window exactly to 0.
C19_PausedOnlyWhileBuffered ==
    \A conn \in Conns :
        LET p == Paused(F, conn)
        IN (stream /\ ~renegotiated /\ p.f.buffer = <<>>) => ~p.ret

\* the scenario of C20 from the present state: a Write of n bytes, then an
\* UpdateWindow(delta), with send window W before the Write
C20_Scenario(n, delta, conn) ==
    LET W == transferWindow
        data == NextData(n)
        w == Write(F, data, conn)
        u == UpdateWindow(w.f, delta, conn)
    IN /\ w.f.output = Append(output, DataFrame(SubSeq(data, 1, W)))
       /\ w.f.buffer = <<SubSeq(data, W + 1, n)>>
       /\ ~u.err
       /\ u.f.output = Append(w.f.output, DataFrame(SubSeq(data, W + 1, n)))
       /\ u.f.buffer = <<>>
       /\ u.f.transferWindow = delta - (n - W)

\* C20: on an open stream with send window W > 0 and empty buffer a Write
\* of N > W bytes emits exactly one DATA frame with the first W bytes and
\* buffers the other N - W; a following UpdateWindow with delta >= N - W
\* (one that the window can take) emits exactly one DATA frame with those
\* N - W bytes, leaves the buffer empty and the send window at
\* delta - (N - W).
C20_FlowControlledSend ==
    \A n \in 1 .. MaxWriteLen, delta \in Deltas, conn \in Conns :
        (/\ stream /\ ~bufferNil /\ buffer = <<>>
         /\ initialWindow = connWindow
         /\ transferWindow > 0 /\ n > transferWindow
         /\ delta >= n - transferWindow
         /\ delta <= MAX_TRANSFER_WINDOW_SIZE)
        => C20_Scenario(n, delta, conn)

\* C21: right after a successful AddFlowControl(f) on a stream of any of
\* the three kinds, transferWindowThere = initialWindowThere =
\* f.InitialWindowSize() and transferWindow = initialWindow = the
\* connection's initial window, the buffer is empty and constrained is
\* clear.
C21_AddFlowControlWindows ==
    \A pol \in Policies, w \in InitialWindowsThere, conn \in Conns :
        (~attached /\ conn.ok) =>
            LET a == AddFlowControl(S, kind, pol, w, conn)
            IN /\ a.initialWindowThere = w
               /\ a.transferWindowThere = w
               /\ a.initialWindow = conn.window
               /\ a.transferWindow = conn.window
               /\ a.buffer = <<>> /\ ~a.bufferNil
               /\ ~a.constrained

\* C22: AddFlowControl on a stream that already has flow control, also
\* with another policy and after windows were consumed or data buffered,
\* changes no field of the flow control and emits nothing.
C22_AddFlowControlIdempotent ==
    \A pol \in Policies, w \in InitialWindowsThere, conn \in Conns :
        attached => (AddFlowControl(S, kind, pol, w, conn) = S)

\* AddFlowControl was called again after data was buffered and the receive
\* window was consumed
C22_Witness ==
    /\ last.op = "AddFlowControl" /\ buffer # <<>>
    /\ received > 0 /\ transferWindowThere < initialWindowThere

\* C23: UpdateWindow returns an error for every delta greater than
\* MAX_DELTA_WINDOW_SIZE, whatever the send window, also a window of 0.
C23_LargeDeltaRejected ==
    \A delta \in Deltas, conn \in Conns :
        (delta > MAX_DELTA_WINDOW_SIZE) => UpdateWindow(F, delta, conn).err

\* C24: GetPriority, PingClient, Push and SetFlowControl called with a
\* ResponseWriter that is not a SPDY stream return ErrNotSPDY with a zero
\* result and call no method of any connection; UsingSPDY returns false
\* and SPDYversion returns 0 for such a writer.
C24_NotSPDYWriter ==
    (alast.w \in {"http.response", "nil"}) =>
        /\ (alast.op \in {"GetPriority", "PingClient", "Push",
                          "SetFlowControl"}) =>
              (alast.err = "ErrNotSPDY" /\ alast.ret = 0
                 /\ alast.conn = "none")
        /\ (alast.op = "UsingSPDY") => ~alast.ok
        /\ (alast.op = "SPDYversion") => (alast.ret = 0)

\* GetPriority was called with the standard library's writer
C24_Witness ==
    /\ alast.op = "GetPriority" /\ alast.w = "http.response"
    /\ alast.err = "ErrNotSPDY"

\* C25: StatusCodeIsFatal returns true exactly for the status codes 1, 4,
\* 6 and 11 and false for every other integer.
C25_FatalStatusCodes ==
    (alast.op = "StatusCodeIsFatal") =>
        (alast.ok <=> alast.v \in {1, 4, 6, 11})

\* StatusCodeIsFatal answered false for RST_STREAM_FLOW_CONTROL_ERROR
C25_Witness ==
    alast.op = "StatusCodeIsFatal" /\ alast.v = 7 /\ ~alast.ok

\* what C26 says of the versions outside 2..3, of Enable and Disable of 2
\* and 3, and of the set, in the present state for version v
C26_Common(v) ==
    LET sv == supportedVersions
        e == EnableSpdyVersion(sv, v)
        d == DisableSpdyVersion(sv, v)
    IN /\ (v \notin 2 .. 3) =>
             (e.err /\ e.set = sv /\ d.err /\ d.set = sv)
       /\ (v \in {2, 3}) =>
             /\ ~e.err /\ SupportedVersion(e.set, v)
             /\ ~d.err /\ ~SupportedVersion(d.set, v)
             /\ \A u \in VersionArgs \ {v} :
                    /\ SupportedVersion(e.set, u) <=> SupportedVersion(sv, u)
                    /\ SupportedVersion(d.set, u) <=> SupportedVersion(sv, u)
             /\ EnableSpdyVersion(e.set, v) = e
             /\ DisableSpdyVersion(d.set, v) = d
       /\ sv \subseteq {2, 3}

\* C26 as stated: Enable and Disable return an error and change nothing
\* for every version outside 2..3; for 2 and 3 they return nil, make the
\* version supported resp. unsupported, leave the other version alone, are
\* idempotent, and Disable followed by Enable restores the set; the set is
\* always a subset of {2, 3}.
C26_DisableEnableRestores ==
    \A v \in VersionArgs :
        /\ C26_Common(v)
        /\ (v \in {2, 3}) =>
              EnableSpdyVersion(DisableSpdyVersion(supportedVersions, v).set,
                                v).set = supportedVersions

\* C26 amended: as stated, but Disable followed by Enable leaves the
\* version supported and the other one alone, which restores the set
\* exactly when the version was supported before.
C26_EnableDisable ==
    \A v \in VersionArgs :
        /\ C26_Common(v)
        /\ (v \in {2, 3}) =>
              LET de == EnableSpdyVersion(
                            DisableSpdyVersion(supportedVersions, v).set, v)
              IN /\ ~de.err
                 /\ de.set = supportedVersions \cup {v}
                 /\ (de.set = supportedVersions) <=>
                        SupportedVersion(supportedVersions, v)

\* version 2 was enabled again while version 3 was disabled
C26_Witness ==
    /\ alast.op = "EnableSpdyVersion" /\ alast.v = 2 /\ alast.err = "nil"
    /\ supportedVersions = {2}

\* the token of a supported version, spelled out
C27_Token(v) ==
    IF v = 3 THEN <<"s", "p", "d", "y", "/", "3">>
    ELSE <<"s", "p", "d", "y", "/", "2">>

\* C27: SupportedVersions returns exactly the enabled versions, each
\* once, in strictly descending order; NpnStrings returns the token
\* spdy/<v> of each in that order, followed by http/1.1 as the last
\* element, also when no version is enabled.
C27_VersionsDescending ==
    LET v == SupportedVersions(supportedVersions)
        n == NpnStrings(supportedVersions)
    IN /\ {v[i] : i \in 1 .. Len(v)} = supportedVersions
       /\ Len(v) = Cardinality(supportedVersions)
       /\ \A i \in 1 .. Len(v) - 1 : v[i] > v[i + 1]
       /\ Len(n) = Len(v) + 1
       /\ \A i \in 1 .. Len(v) : n[i] = C27_Token(v[i])
       /\ n[Len(n)] = <<"h", "t", "t", "p", "/", "1", ".", "1">>

\* both versions are enabled after one of them was disabled and enabled
\* again
C27_Witness ==
    /\ supportedVersions = {2, 3}
    /\ alast.op = "EnableSpdyVersion" /\ alast.err = "nil"

\* C28: NewServerConn returns a nil connection and an error when conn is
\* nil, when server is nil or when the version is not 2, 3 or 3.1;
\* otherwise it returns a connection and no error, whose next ping id is 2
\* (even), whose push stream limit is NO_STREAM_LIMIT and which has eight
\* output queues.
C28_NewServerConn ==
    (alast.op = "NewServerConn") =>
        IF alast.w \in {"nil conn", "nil server"}
              \/ alast.v \notin {20, 30, 31}
        THEN alast.err = "error" /\ made.type = "nil"
        ELSE /\ alast.err = "nil" /\ made.type # "nil"
             /\ made.nextPingID = 2 /\ made.nextPingID % 2 = 0
             /\ made.pushStreamLimit = NO_STREAM_LIMIT
             /\ made.outputs = 8

\* a SPDY/3.1 connection was made
C28_Witness ==
    /\ alast.op = "NewServerConn" /\ alast.v = 31 /\ alast.err = "nil"
    /\ made.type = "connV3" /\ made.subversion = 1

C30_ResetEndsReceive ==
    (received > 0 /\ \E i \in 1 .. Len(rlast.frames) : IsRst(rlast.frames[i]))
        => /\ transferWindowThere = rlast.before
           /\ rlast.asked = <<>>
           /\ SelectSeq(rlast.frames, IsWindowUpdate) = <<>>

\* the DATA frames among the frames fs all carry a payload within bound
WithinMaxDataSize(fs) ==
    \A i \in 1 .. Len(fs) : IsData(fs[i]) => Len(fs[i].data) <= MAX_DATA_SIZE

\* C31: every DATA frame that Write or Flush emits carries at most
\* MAX_DATA_SIZE payload bytes; a Write longer than MAX_DATA_SIZE that fits
\* the window is split into frames within the bound.
C31_FramesWithinMaxDataSize ==
    /\ WithinMaxDataSize(output)
    /\ \A n \in 1 .. MAX_DATA_SIZE + 1, conn \in Conns :
           WithinMaxDataSize(Write(F, NextData(n), conn).f.output)
    /\ \A conn \in Conns : WithinMaxDataSize(Flush(F, conn).output)

\* what C32 compares: the send window, the buffer, the constrained flag
\* and the payload bytes emitted
RaceOutcome(r) ==
    <<r.transferWindow, r.buffer, r.constrained, EmittedOf(r.output)>>

\* C32: when Write and UpdateWindow run at the same time on one stream,
\* every interleaving ends as one of the two sequential orders does (same
\* send window, buffer, constrained flag and emitted payloads), and never
\* with data buffered, a positive window and the stream waiting for a
\* WINDOW_UPDATE.
C32_WriteUpdateSerializable ==
    (wpc = "done" /\ upc = "done") =>
        /\ \E c1 \in Conns, c2 \in Conns :
               \/ RaceOutcome(F) = RaceOutcome(
                      UpdateWindow(Write(before, wl.arg, c1).f, ul, c2).f)
               \/ RaceOutcome(F) = RaceOutcome(
                      Write(UpdateWindow(before, ul, c1).f, wl.arg, c2).f)
        /\ ~(buffer # <<>> /\ transferWindow > 0 /\ constrained)

\* C33: no DATA frame with an empty payload is ever put on the output
\* channel, neither by Write nor by Flush, also when a WINDOW_UPDATE
\* arrives on a constrained stream with an empty buffer.
C33_NoEmptyDataFrame ==
    \A i \in 1 .. Len(output) : IsData(output[i]) => Len(output[i].data) > 0

\* C34: after Close no Write, Flush or UpdateWindow puts a frame on the
\* output channel, whatever the constrained flag and the send window were
\* when Close was called, and a second Close changes nothing.
C34_ClosedEmitsNothing ==
    ~stream =>
        /\ \A n \in 0 .. MaxWriteLen, conn \in Conns :
               Write(F, NextData(n), conn).f.output = output
        /\ \A conn \in Conns : Flush(F, conn).output = output
        /\ \A delta \in Deltas, conn \in Conns :
               UpdateWindow(F, delta, conn).f.output = output
        /\ Close(F) = F

\* the send-side and the receive-side fields of the flowControl object
SendSide == <<initialWindow, transferWindow, sent, buffer, bufferNil,
              constrained>>

ReceiveSide == <<initialWindowThere, transferWindowThere>>

\* C35: an accepted UpdateWindow on a stream that is not constrained and
\* whose connection's initial window is unchanged only adds the delta to
\* transferWindow: no frame, and buffer, sent, constrained and
\* initialWindow stay as they are; a Receive changes no send-side field
\* and a Write changes no receive-side field.
C35_FrameEffects ==
    [][/\ \A delta \in Deltas, conn \in Conns :
              LET res == UpdateWindow(F, delta, conn)
              IN (stream /\ ~constrained /\ conn.window = initialWindow
                  /\ ~res.err)
                     => res.f = [F EXCEPT !.transferWindow = @ + delta]
       /\ (last'.op = "UpdateWindow" /\ ~last'.err /\ ~constrained
           /\ received' = received)
              => /\ transferWindow' - transferWindow \in Deltas
                 /\ UNCHANGED <<initialWindow, sent, buffer, bufferNil,
                                constrained, output, ReceiveSide>>
       /\ (received' # received) => UNCHANGED SendSide
       /\ (last'.op = "Write" /\ received' = received)
              => UNCHANGED ReceiveSide]_vars

\* an accepted UpdateWindow on a stream that is not constrained, that has
\* emitted data and has received data
C35_Witness ==
    /\ received > 0 /\ last.op = "UpdateWindow" /\ ~last.err /\ ~constrained
    /\ transferWindowThere # initialWindowThere
    /\ output # <<>> /\ transferWindow > initialWindow

\* C36: the counter of active streams never wraps below zero: current is
\* the number of streams that Add admitted and Close has not yet counted,
\* and a Close made when current is 0 does not make a later Add refuse a
\* stream that the limit allows.
C36_CounterNeverWraps ==
    /\ current = holding
                 + Cardinality({p \in Procs : lpc[p] \in {"Close_wait", "Close"}})
    /\ (current = 0 /\ limit > 0) =>
           ~AddRefuses(CloseDecrement(current), limit)

\* the states a StreamState can hold
StreamStates == {STATE_OPEN, STATE_HALF_CLOSED_HERE, STATE_HALF_CLOSED_THERE,
                 STATE_CLOSED}

\* C37: in every state the queries agree: Open iff OpenHere and OpenThere,
\* Closed iff ClosedHere and ClosedThere, OpenHere is the negation of
\* ClosedHere, OpenThere the negation of ClosedThere, and the zero value
\* is OPEN.
C37_QueriesConsistent ==
    /\ s \in StreamStates
    /\ Open(s) <=> (OpenHere(s) /\ OpenThere(s))
    /\ Closed(s) <=> (ClosedHere(s) /\ ClosedThere(s))
    /\ OpenHere(s) <=> ~ClosedHere(s)
    /\ OpenThere(s) <=> ~ClosedThere(s)
    /\ Open(0)

\* both sides have half-closed, one after the other, and the queries are
\* asked on the closed stream
C37_Witness ==
    /\ s = STATE_CLOSED /\ slast.op = "CloseHere"
    /\ slast.from = STATE_HALF_CLOSED_THERE
    /\ Closed(s) /\ ClosedHere(s) /\ ClosedThere(s) /\ ~Open(s)

\* C38: CloseHere and CloseThere commute from every state; when one task
\* calls CloseHere while another calls CloseThere, every interleaving ends
\* in CLOSED: each call closes its own side for good, the stream is CLOSED
\* exactly when both sides are closed, and a half-close of one side alone
\* never closes the stream.
C38_HalfClosesCommute ==
    [][/\ \A st \in StreamStates : CloseHere(CloseThere(st)) = CloseThere(CloseHere(st))
       /\ CloseHere(CloseThere(STATE_OPEN)) = STATE_CLOSED
       /\ \A t \in Tasks :
              /\ (spc[t] = <<"CloseHere", "body">> /\ spc'[t][2] = "idle") =>
                     /\ ClosedHere(s')
                     /\ Closed(s') <=> ClosedThere(s)
              /\ (spc[t] = <<"CloseThere", "body">> /\ spc'[t][2] = "idle") =>
                     /\ ClosedThere(s')
                     /\ Closed(s') <=> ClosedHere(s)
       /\ ClosedHere(s) => ClosedHere(s')
       /\ ClosedThere(s) => ClosedThere(s')
       /\ Closed(s') <=> (ClosedHere(s') /\ ClosedThere(s'))]_vars

\* CloseHere closed a stream that CloseThere had half-closed, and every
\* task has returned
C38_Witness ==
    /\ slast.op = "CloseHere" /\ slast.from = STATE_HALF_CLOSED_THERE
    /\ slast.to = STATE_CLOSED /\ s = STATE_CLOSED
    /\ \A t \in Tasks : spc[t] = <<"none", "idle">>

\* C39: when the connection's InitialWindowSize() fails during
\* AddFlowControl the stream is left as before the call, without flow
\* control, so that a later AddFlowControl can still initialise it.
C39_FailedAddLeavesNoFlowControl ==
    \A pol \in Policies, w \in InitialWindowsThere, conn \in Conns :
        (~attached /\ ~conn.ok) =>
            /\ AddFlowControl(S, kind, pol, w, conn) = S
            /\ \E conn2 \in Conns :
                   /\ conn2.ok
                   /\ LET once == AddFlowControl(S, kind, pol, w, conn)
                          twice == AddFlowControl(once, kind, pol, w, conn2)
                      IN twice.initialWindow = conn2.window /\ ~twice.bufferNil

\* the send window is never negative
WindowNonNegative == transferWindow >= 0

TypeOK ==
    /\ initialWindow \in UInt
    /\ sent \in UInt
    /\ transferWindow \in Int
    /\ constrained \in BOOLEAN
====
